---- MODULE Spec2Model ----
(***************************************************************************)
(* A model of wttw/orderedheaders: the ordered Header (a sequence of KV),  *)
(* its mutators (Add, Set, RemoveAll, Normalize), the reader (ReadHeader,  *)
(* ReadMessage), the Registry and Validator (HeaderSyntax, checkHeader)    *)
(* and the writer (WriteTo, writeHeader).                                  *)
(*                                                                         *)
(* Strings are Go strings: sequences of bytes, here sequences of integers  *)
(* in 0..255.  Str turns a TLA+ string literal into its bytes.             *)
(***************************************************************************)
EXTENDS Integers, Sequences, FiniteSets, TLC

\* The byte value of each ASCII character a literal of this module may hold.
Ord ==
    ("\t" :> 9) @@ ("\n" :> 10) @@ ("\f" :> 12) @@ ("\r" :> 13) @@ (" " :> 32) @@ ("!" :> 33) @@
    ("\"" :> 34) @@ ("#" :> 35) @@ ("$" :> 36) @@ ("%" :> 37) @@ ("&" :> 38) @@ ("'" :> 39) @@
    ("(" :> 40) @@ (")" :> 41) @@ ("*" :> 42) @@ ("+" :> 43) @@ ("," :> 44) @@ ("-" :> 45) @@
    ("." :> 46) @@ ("/" :> 47) @@ ("0" :> 48) @@ ("1" :> 49) @@ ("2" :> 50) @@ ("3" :> 51) @@
    ("4" :> 52) @@ ("5" :> 53) @@ ("6" :> 54) @@ ("7" :> 55) @@ ("8" :> 56) @@ ("9" :> 57) @@
    (":" :> 58) @@ (";" :> 59) @@ ("<" :> 60) @@ ("=" :> 61) @@ (">" :> 62) @@ ("?" :> 63) @@
    ("@" :> 64) @@ ("A" :> 65) @@ ("B" :> 66) @@ ("C" :> 67) @@ ("D" :> 68) @@ ("E" :> 69) @@
    ("F" :> 70) @@ ("G" :> 71) @@ ("H" :> 72) @@ ("I" :> 73) @@ ("J" :> 74) @@ ("K" :> 75) @@
    ("L" :> 76) @@ ("M" :> 77) @@ ("N" :> 78) @@ ("O" :> 79) @@ ("P" :> 80) @@ ("Q" :> 81) @@
    ("R" :> 82) @@ ("S" :> 83) @@ ("T" :> 84) @@ ("U" :> 85) @@ ("V" :> 86) @@ ("W" :> 87) @@
    ("X" :> 88) @@ ("Y" :> 89) @@ ("Z" :> 90) @@ ("[" :> 91) @@ ("\\" :> 92) @@ ("]" :> 93) @@
    ("^" :> 94) @@ ("_" :> 95) @@ ("a" :> 97) @@ ("b" :> 98) @@ ("c" :> 99) @@
    ("d" :> 100) @@ ("e" :> 101) @@ ("f" :> 102) @@ ("g" :> 103) @@ ("h" :> 104) @@ ("i" :> 105) @@
    ("j" :> 106) @@ ("k" :> 107) @@ ("l" :> 108) @@ ("m" :> 109) @@ ("n" :> 110) @@ ("o" :> 111) @@
    ("p" :> 112) @@ ("q" :> 113) @@ ("r" :> 114) @@ ("s" :> 115) @@ ("t" :> 116) @@ ("u" :> 117) @@
    ("v" :> 118) @@ ("w" :> 119) @@ ("x" :> 120) @@ ("y" :> 121) @@ ("z" :> 122) @@ ("{" :> 123) @@
    ("|" :> 124) @@ ("}" :> 125) @@ ("~" :> 126)

\* A Go string literal as its bytes.
Str(s) == [i \in 1..Len(s) |-> Ord[SubSeq(s, i, i)]]

\* One byte, named by its character.
Ch(c) == Ord[c]

\* The two bytes UTF-8 encodes U+00ED in (the i-acute of the i18n test).
NonAscii == <<195, 173>>

(***************************************************************************)
(* Go library functions the package calls, by what they do on bytes.       *)
(***************************************************************************)
MinOf(S) == CHOOSE x \in S : \A y \in S : x <= y
MaxOf(S) == CHOOSE x \in S : \A y \in S : y <= x

\* unicode.IsSpace on an ASCII byte: '\t', '\n', '\v', '\f', '\r', ' '.
IsSpace(c) == c \in {9, 10, 11, 12, 13, 32}

\* strings.TrimSpace
TrimSpace(s) ==
    LET keep == {i \in 1..Len(s) : ~IsSpace(s[i])}
    IN  IF keep = {} THEN <<>> ELSE SubSeq(s, MinOf(keep), MaxOf(keep))

IsLower(c) == c >= 97 /\ c <= 122
IsUpper(c) == c >= 65 /\ c <= 90
IsDigit(c) == c >= 48 /\ c <= 57
IsLetter(c) == IsLower(c) \/ IsUpper(c)

\* textproto's validHeaderFieldByte: the RFC 7230 token characters.
validHeaderFieldByte(c) ==
    \/ IsLetter(c)
    \/ IsDigit(c)
    \/ c \in {33, 35, 36, 37, 38, 39, 42, 43, 45, 46, 94, 95, 96, 124, 126}

\* A variant of the canonical form that upper-cases the first letter of each
\* segment and leaves the remainder as written.
CanonicalMIMEHeaderKeyNoLower(s) ==
    IF \E i \in 1..Len(s) : ~validHeaderFieldByte(s[i])
    THEN s
    ELSE [i \in 1..Len(s) |->
            IF (i = 1 \/ s[i - 1] = 45) /\ IsLower(s[i]) THEN s[i] - 32 ELSE s[i]]

\* textproto.CanonicalMIMEHeaderKey: a key holding any byte that is not a
\* token character (a space included) is returned unchanged; otherwise the first
\* letter and every letter after a hyphen is upper-cased, the others lower-cased.
CanonicalMIMEHeaderKey(s) ==
    IF \E i \in 1..Len(s) : ~validHeaderFieldByte(s[i])
    THEN s
    ELSE [i \in 1..Len(s) |->
            LET upper == i = 1 \/ s[i - 1] = 45
            IN  IF upper /\ IsLower(s[i]) THEN s[i] - 32
                ELSE IF ~upper /\ IsUpper(s[i]) THEN s[i] + 32
                ELSE s[i]]

(***************************************************************************)
(* The Registry: HeaderSyntax and the Hdr* names.                          *)
(***************************************************************************)
HdrReturnPath == Str("Return-Path")
HdrReceived == Str("Received")
HdrDate == Str("Date")
HdrFrom == Str("From")
HdrSender == Str("Sender")
HdrReplyTo == Str("Reply-To")
HdrTo == Str("To")
HdrCc == Str("Cc")
HdrBcc == Str("Bcc")
HdrMessageId == Str("Message-Id")
HdrInReplyTo == Str("In-Reply-To")
HdrReferences == Str("References")
HdrSubject == Str("Subject")
HdrComments == Str("Comments")
HdrKeywords == Str("Keywords")
HdrResentDate == Str("Resent-Date")
HdrResentFrom == Str("Resent-From")
HdrResentSender == Str("Resent-Sender")
HdrResentTo == Str("Resent-To")
HdrResentCc == Str("Resent-Cc")
HdrResentBcc == Str("Resent-Bcc")
HdrMimeVersion == Str("Mime-Version")
HdrContentType == Str("Content-Type")
HdrContentID == Str("Content-ID")
HdrContentTransferEncoding == Str("Content-Transfer-Encoding")
HdrContentDescription == Str("Content-Description")

\* HeaderType
HeaderTypes ==
    {"Unstructured", "Mailbox", "MailboxList", "Date", "Received", "MessageID",
     "MessageIDList", "PhraseList", "ReturnPath", "Opaque"}

Syntax(required, unique, type) == [Required |-> required, Unique |-> unique, Type |-> type]

HeaderSyntax ==
    (HdrReturnPath :> Syntax(FALSE, FALSE, "ReturnPath")) @@
    (HdrReceived :> Syntax(FALSE, FALSE, "Received")) @@
    (HdrDate :> Syntax(TRUE, TRUE, "Date")) @@
    (HdrFrom :> Syntax(TRUE, TRUE, "MailboxList")) @@
    (HdrSender :> Syntax(FALSE, TRUE, "Mailbox")) @@
    (HdrReplyTo :> Syntax(FALSE, TRUE, "MailboxList")) @@
    (HdrTo :> Syntax(FALSE, TRUE, "MailboxList")) @@
    (HdrCc :> Syntax(FALSE, TRUE, "MailboxList")) @@
    (HdrBcc :> Syntax(FALSE, TRUE, "MailboxList")) @@
    (HdrMessageId :> Syntax(FALSE, TRUE, "MessageID")) @@
    (HdrInReplyTo :> Syntax(FALSE, TRUE, "MessageIDList")) @@
    (HdrReferences :> Syntax(FALSE, TRUE, "MessageIDList")) @@
    (HdrSubject :> Syntax(FALSE, TRUE, "Unstructured")) @@
    (HdrComments :> Syntax(FALSE, FALSE, "Unstructured")) @@
    (HdrKeywords :> Syntax(FALSE, FALSE, "PhraseList")) @@
    (HdrResentDate :> Syntax(FALSE, FALSE, "Date")) @@
    (HdrResentFrom :> Syntax(FALSE, FALSE, "MailboxList")) @@
    (HdrResentSender :> Syntax(FALSE, FALSE, "Mailbox")) @@
    (HdrResentTo :> Syntax(FALSE, FALSE, "MailboxList")) @@
    (HdrResentCc :> Syntax(FALSE, FALSE, "MailboxList")) @@
    (HdrResentBcc :> Syntax(FALSE, FALSE, "MailboxList")) @@
    (HdrMimeVersion :> Syntax(FALSE, TRUE, "Opaque")) @@
    (HdrContentType :> Syntax(FALSE, TRUE, "Opaque")) @@
    (HdrContentID :> Syntax(FALSE, TRUE, "MessageID")) @@
    (HdrContentTransferEncoding :> Syntax(FALSE, TRUE, "Opaque")) @@
    (HdrContentDescription :> Syntax(FALSE, TRUE, "Unstructured"))


(***************************************************************************)
(* The collaborators the Validator and the Writer delegate to: net/mail's  *)
(* address and date parsers, on the forms the model's values take (an      *)
(* addr-spec, an angle-addr with or without a display name of atoms, a     *)
(* comma-separated list of those; a date "[Www, ]D Mon YYYY HH:MM:SS +ZZZZ").*)
(***************************************************************************)
\* strings.Split(s, sep) for a one-byte separator.
RECURSIVE Split(_, _)
Split(s, sep) ==
    LET at == {i \in 1..Len(s) : s[i] = sep}
    IN  IF at = {} THEN <<s>>
        ELSE <<SubSeq(s, 1, MinOf(at) - 1)>> \o Split(SubSeq(s, MinOf(at) + 1, Len(s)), sep)

\* strings.Join(parts, sep)
RECURSIVE Join(_, _)
Join(parts, sep) ==
    IF parts = <<>> THEN <<>>
    ELSE IF Len(parts) = 1 THEN parts[1]
    ELSE parts[1] \o sep \o Join(Tail(parts), sep)

\* net/mail's atext.
IsAtext(c) ==
    \/ IsLetter(c)
    \/ IsDigit(c)
    \/ c \in {33, 35, 36, 37, 38, 39, 42, 43, 45, 47, 61, 63, 94, 95, 96, 123, 124, 125, 126}

IsDotAtom(s) ==
    /\ s # <<>>
    /\ \A i \in 1..Len(s) : IsAtext(s[i]) \/ s[i] = 46
    /\ s[1] # 46 /\ s[Len(s)] # 46
    /\ \A i \in 1..(Len(s) - 1) : ~(s[i] = 46 /\ s[i + 1] = 46)

IsAddrSpec(s) ==
    LET at == {i \in 1..Len(s) : s[i] = 64}
    IN  /\ Cardinality(at) = 1
        /\ IsDotAtom(SubSeq(s, 1, MinOf(at) - 1))
        /\ IsDotAtom(SubSeq(s, MinOf(at) + 1, Len(s)))

\* A display name of atoms separated by spaces.
IsPhrase(s) ==
    /\ s # <<>>
    /\ \A i \in 1..Len(s) : IsAtext(s[i]) \/ s[i] = 32

NoAddress == [ok |-> FALSE, Name |-> <<>>, Address |-> <<>>]

\* mail.ParseAddress: [ok, Name, Address].
ParseAddress(v) ==
    LET s == TrimSpace(v)
        lt == {i \in 1..Len(s) : s[i] = 60}
    IN  IF s = <<>> THEN NoAddress
        ELSE IF IsAddrSpec(s) THEN [ok |-> TRUE, Name |-> <<>>, Address |-> s]
        ELSE IF Cardinality(lt) = 1 /\ s[Len(s)] = 62
        THEN LET p == MinOf(lt)
                 name == TrimSpace(SubSeq(s, 1, p - 1))
                 spec == SubSeq(s, p + 1, Len(s) - 1)
             IN  IF IsAddrSpec(spec) /\ (name = <<>> \/ IsPhrase(name))
                 THEN [ok |-> TRUE, Name |-> name, Address |-> spec]
                 ELSE NoAddress
        ELSE NoAddress

\* mail.ParseAddressList: [ok, list]; empty entries are skipped, an empty list
\* is an error.
ParseAddressList(v) ==
    LET parts == SelectSeq(Split(v, 44), LAMBDA x : TrimSpace(x) # <<>>)
        addrs == [i \in 1..Len(parts) |-> ParseAddress(parts[i])]
    IN  IF parts # <<>> /\ \A i \in 1..Len(parts) : addrs[i].ok
        THEN [ok |-> TRUE, list |-> addrs]
        ELSE [ok |-> FALSE, list |-> <<>>]

\* (*mail.Address).String for a display name of printable ASCII.
AddressString(a) ==
    IF a.Name = <<>> THEN <<60>> \o a.Address \o <<62>>
    ELSE <<34>> \o a.Name \o <<34, 32, 60>> \o a.Address \o <<62>>

Months ==
    {Str("Jan"), Str("Feb"), Str("Mar"), Str("Apr"), Str("May"), Str("Jun"),
     Str("Jul"), Str("Aug"), Str("Sep"), Str("Oct"), Str("Nov"), Str("Dec")}

Weekdays ==
    {Str("Mon,"), Str("Tue,"), Str("Wed,"), Str("Thu,"), Str("Fri,"), Str("Sat,"), Str("Sun,")}

AllDigits(s) == \A i \in 1..Len(s) : IsDigit(s[i])

\* mail.ParseDate succeeds.
ParseDateOk(v) ==
    LET all == Split(v, 32)
        f == IF all # <<>> /\ all[1] \in Weekdays THEN Tail(all) ELSE all
    IN  /\ Len(f) = 5
        /\ Len(f[1]) \in {1, 2} /\ AllDigits(f[1])
        /\ f[2] \in Months
        /\ Len(f[3]) = 4 /\ AllDigits(f[3])
        /\ Len(f[4]) = 8 /\ f[4][3] = 58 /\ f[4][6] = 58
        /\ AllDigits(SubSeq(f[4], 1, 2) \o SubSeq(f[4], 4, 5) \o SubSeq(f[4], 7, 8))
        /\ Len(f[5]) = 5 /\ f[5][1] \in {43, 45} /\ AllDigits(Tail(f[5]))

(***************************************************************************)
(* The Validator.  An error is a string, "" standing for nil.              *)
(***************************************************************************)
\* isAscii
isAscii(s) == \A i \in 1..Len(s) : ~(s[i] > 127)

\* The character class of the constant atext: the range +-/ makes ',' and '.'
\* members of it.
atext(c) ==
    \/ IsLetter(c)
    \/ IsDigit(c)
    \/ c \in {33, 35, 36, 37, 38, 39, 42}
    \/ (c >= 43 /\ c <= 47)
    \/ c \in {61, 63, 94, 95, 96, 123, 124, 125, 126}

\* The regular expression's \s.
reSpace(c) == c \in {9, 10, 12, 13, 32}

\* messageIdRe.MatchString(s): ^\s*<atext+(?:\.atext+)*@atext+(?:\.atext+)>\s*
\* (anchored at the start only; the domain needs one ".atext+" after "atext+").
messageIdReMatch(s) ==
    LET lead == {i \in 1..Len(s) : ~reSpace(s[i])}
        p == IF lead = {} THEN 0 ELSE MinOf(lead)
        ats == {i \in 1..Len(s) : i > p /\ s[i] = 64}
        q == IF ats = {} THEN 0 ELSE MinOf(ats)
        gts == {i \in 1..Len(s) : i > q /\ s[i] = 62}
        r == IF gts = {} THEN 0 ELSE MinOf(gts)
    IN  /\ p > 0 /\ s[p] = 60
        /\ q > p + 1
        /\ \A i \in (p + 1)..(q - 1) : atext(s[i])
        /\ r > q + 1
        /\ \A i \in (q + 1)..(r - 1) : atext(s[i])
        /\ \E d \in (q + 2)..(r - 2) : s[d] = 46

validMessageId(s) == IF messageIdReMatch(s) THEN "" ELSE "not a valid Message-ID"

validMessageIdList(s) ==
    LET ids == Split(s, 44)
        bad == {i \in 1..Len(ids) : validMessageId(ids[i]) # ""}
    IN  IF bad = {} THEN "" ELSE validMessageId(ids[MinOf(bad)])

validDate(s) == IF ParseDateOk(s) THEN "" ELSE "not a valid date"

\* checkHeader
checkHeader(headerType, v) ==
    LET value == TrimSpace(v)
    IN  CASE headerType \in {"Unstructured", "PhraseList"} -> ""
          [] headerType \in {"Opaque", "Received"} ->
                IF isAscii(value) THEN "" ELSE "cannot contain non-ascii characters"
          [] headerType = "ReturnPath" ->
                IF value = Str("<>") THEN ""
                ELSE IF ~ParseAddress(value).ok THEN "not a valid return path"
                ELSE IF ParseAddress(value).Name # <<>>
                     THEN "not a valid return path: cannot ahve display name"
                ELSE ""
          [] headerType = "Date" -> validDate(value)
          [] headerType = "Mailbox" ->
                IF ParseAddress(value).ok THEN "" ELSE "not a valid 5322 email address"
          [] headerType = "MailboxList" ->
                IF ParseAddressList(value).ok THEN ""
                ELSE "not a valid 5322 list of email addresses"
          [] headerType = "MessageID" -> validMessageId(value)
          [] headerType = "MessageIDList" -> validMessageIdList(value)
          [] OTHER -> "internal error, invalid header type"

\* Check: the error, "" for nil.
Check(name, value) ==
    LET canon == CanonicalMIMEHeaderKey(name)
    IN  IF canon \notin DOMAIN HeaderSyntax THEN ""
        ELSE checkHeader(HeaderSyntax[canon].Type, value)


(***************************************************************************)
(* The Header model: a Header is its Headers, a sequence of KV.            *)
(***************************************************************************)
KV(key, value) == [Key |-> key, Value |-> value]

\* Header.Add
Add(h, key, value) == Append(h, KV(CanonicalMIMEHeaderKey(key), value))

\* Get as it would be if it returned the last value of the key.
GetLast(h, key) ==
    LET canon == CanonicalMIMEHeaderKey(key)
        hit == {i \in 1..Len(h) : h[i].Key = canon}
    IN  IF hit = {} THEN <<>> ELSE h[MaxOf(hit)].Value

\* Header.Get
Get(h, key) ==
    LET canon == CanonicalMIMEHeaderKey(key)
        hit == {i \in 1..Len(h) : h[i].Key = canon}
    IN  IF hit = {} THEN <<>> ELSE h[MinOf(hit)].Value

\* Header.Has
Has(h, key) ==
    \E i \in 1..Len(h) : h[i].Key = CanonicalMIMEHeaderKey(key)

\* Set as it would be if it replaced the last entry of the key, not the first.
SetReplaceLast(h, key, value) ==
    LET canonKey == CanonicalMIMEHeaderKey(key)
        hit == {i \in 1..Len(h) : h[i].Key = canonKey}
    IN  IF canonKey \notin DOMAIN HeaderSyntax
        THEN [h |-> h, err |-> "not a standard email header"]
        ELSE IF value # <<>> /\ checkHeader(HeaderSyntax[canonKey].Type, value) # ""
        THEN [h |-> h, err |-> "invalid value"]
        ELSE IF hit # {}
        THEN [h |-> [h EXCEPT ![MaxOf(hit)] = KV(canonKey, value)], err |-> ""]
        ELSE [h |-> Append(h, KV(canonKey, value)), err |-> ""]

\* Set as it would be if it validated nothing.
SetNoCheck(h, key, value) ==
    LET canonKey == CanonicalMIMEHeaderKey(key)
        hit == {i \in 1..Len(h) : h[i].Key = canonKey}
    IN  IF hit # {}
        THEN [h |-> [h EXCEPT ![MinOf(hit)] = KV(canonKey, value)], err |-> ""]
        ELSE [h |-> Append(h, KV(canonKey, value)), err |-> ""]

\* Header.Set: [h, err], h the Headers afterwards.
Set(h, key, value) ==
    LET canonKey == CanonicalMIMEHeaderKey(key)
        hit == {i \in 1..Len(h) : h[i].Key = canonKey}
    IN  IF canonKey \notin DOMAIN HeaderSyntax
        THEN [h |-> h, err |-> "not a standard email header"]
        ELSE IF value # <<>> /\ checkHeader(HeaderSyntax[canonKey].Type, value) # ""
        THEN [h |-> h, err |-> "invalid value"]
        ELSE IF hit # {}
        THEN [h |-> [h EXCEPT ![MinOf(hit)] = KV(canonKey, value)], err |-> ""]
        ELSE [h |-> Append(h, KV(canonKey, value)), err |-> ""]

\* MIMEHeader.Add, as ToMap calls it: the map with value put after the values
\* of key.
MapAdd(m, key, value) ==
    LET k == CanonicalMIMEHeaderKey(key)
    IN  IF k \in DOMAIN m
        THEN [m EXCEPT ![k] = Append(@, value)]
        ELSE m @@ (k :> <<value>>)

\* The loop of ToMap from entry i (from 1) with map m.
RECURSIVE toMapLoop(_, _, _)
toMapLoop(h, i, m) ==
    IF i > Len(h) THEN m ELSE toMapLoop(h, i + 1, MapAdd(m, h[i].Key, h[i].Value))

\* Header.ToMap
ToMap(h) == toMapLoop(h, 1, <<>>)

\* RemoveAll as it would be if it compared with the key as given.
RemoveAllRawKey(h, key) == SelectSeq(h, LAMBDA kv : kv.Key # key)

\* Header.RemoveAll
RemoveAll(h, key) ==
    SelectSeq(h, LAMBDA kv : kv.Key # CanonicalMIMEHeaderKey(key))

\* whitespaceRe.ReplaceAllLiteralString(s, " "): each maximal run of the
\* regular expression's \s becomes one space (the model's values hold no
\* code point of class Zs but the space).
RECURSIVE ReplaceWhitespace(_)
ReplaceWhitespace(s) ==
    IF s = <<>> THEN <<>>
    ELSE IF reSpace(s[1])
    THEN LET rest == {i \in 1..Len(s) : ~reSpace(s[i])}
         IN  IF rest = {} THEN <<32>>
             ELSE <<32>> \o ReplaceWhitespace(SubSeq(s, MinOf(rest), Len(s)))
    ELSE <<s[1]>> \o ReplaceWhitespace(Tail(s))

\* Header.Normalize
Normalize(h) ==
    [i \in 1..Len(h) |-> KV(h[i].Key, TrimSpace(ReplaceWhitespace(h[i].Value)))]


(***************************************************************************)
(* The Reader.  A stream is [data, err]: the bytes still to be read and    *)
(* the error its Read returns once they are used up ("EOF" for io.EOF).    *)
(* An error of the reader is [kind, text], kind "nil" standing for nil.    *)
(***************************************************************************)
NilErr == [kind |-> "nil", text |-> <<>>]
StreamErr(kind) == [kind |-> kind, text |-> <<>>]
ProtocolError(text) == [kind |-> "ProtocolError", text |-> text]

\* textproto's trim: leading and trailing spaces and tabs go.
trim(s) ==
    LET keep == {i \in 1..Len(s) : s[i] # 32 /\ s[i] # 9}
    IN  IF keep = {} THEN <<>> ELSE SubSeq(s, MinOf(keep), MaxOf(keep))

\* textproto's readLineSlice over bufio's ReadLine: [line, err, rest].  The
\* line loses its "\n" or "\r\n"; bytes with no line end before the stream's
\* end are a line; with nothing left the stream's error is returned.
readLineSlice(st) ==
    LET d == st.data
        nl == {i \in 1..Len(d) : d[i] = 10}
    IN  IF d = <<>>
        THEN [line |-> <<>>, err |-> StreamErr(st.err), rest |-> st]
        ELSE IF nl = {}
        THEN [line |-> d, err |-> NilErr, rest |-> [st EXCEPT !.data = <<>>]]
        ELSE LET n == MinOf(nl)
                 stop == IF n > 1 /\ d[n - 1] = 13 THEN n - 2 ELSE n - 1
             IN  [line |-> SubSeq(d, 1, stop), err |-> NilErr,
                  rest |-> [st EXCEPT !.data = SubSeq(d, n + 1, Len(d))]]

\* textproto's skipSpace: [n, rest], n the spaces and tabs skipped.
skipSpace(st) ==
    LET d == st.data
        non == {i \in 1..Len(d) : d[i] # 32 /\ d[i] # 9}
        n == IF non = {} THEN Len(d) ELSE MinOf(non) - 1
    IN  [n |-> n, rest |-> [st EXCEPT !.data = SubSeq(d, n + 1, Len(d))]]

\* The continuation loop as it would be if it joined the lines with nothing
\* between them.
RECURSIVE readContinuationNoSpace(_, _)
readContinuationNoSpace(buf, st) ==
    LET sk == skipSpace(st)
        l == readLineSlice(sk.rest)
    IN  IF sk.n = 0 THEN [line |-> buf, err |-> NilErr, rest |-> st]
        ELSE IF l.err # NilErr THEN [line |-> buf, err |-> NilErr, rest |-> l.rest]
        ELSE readContinuationNoSpace(buf \o trim(l.line), l.rest)

\* The continuation loop of readContinuedLineSlice: while the next line
\* starts with a space or tab, it is trimmed and joined with one space.
RECURSIVE readContinuation(_, _)
readContinuation(buf, st) ==
    LET sk == skipSpace(st)
        l == readLineSlice(sk.rest)
    IN  IF sk.n = 0 THEN [line |-> buf, err |-> NilErr, rest |-> st]
        ELSE IF l.err # NilErr THEN [line |-> buf, err |-> NilErr, rest |-> l.rest]
        ELSE readContinuation(buf \o <<32>> \o trim(l.line), l.rest)

\* textproto.Reader.ReadContinuedLineBytes: [line, err, rest].
ReadContinuedLineBytes(st) ==
    LET l == readLineSlice(st)
    IN  IF l.err # NilErr THEN l
        ELSE IF Len(l.line) = 0 THEN l
        ELSE readContinuation(trim(l.line), l.rest)

\* SplitLine as it would be if the value began right after the colon.
SplitLineNoSkip(kv) ==
    LET colons == {i \in 1..Len(kv) : kv[i] = 58}
        i == IF colons = {} THEN 0 ELSE MinOf(colons)
        nonsp == {j \in 1..(i - 1) : kv[j] # 32}
        endKey == IF nonsp = {} THEN 0 ELSE MaxOf(nonsp)
        key == CanonicalMIMEHeaderKey(SubSeq(kv, 1, endKey))
    IN  [colon |-> i > 0, key |-> key, skip |-> key = <<>>,
         value |-> SubSeq(kv, i + 1, Len(kv))]

\* One logical line as ReadHeader splits it: [colon, key, skip, value]; colon
\* is FALSE when the line has none, skip is TRUE when the key is empty.
SplitLine(kv) ==
    LET colons == {i \in 1..Len(kv) : kv[i] = 58}
        i == IF colons = {} THEN 0 ELSE MinOf(colons)
        nonsp == {j \in 1..(i - 1) : kv[j] # 32}
        endKey == IF nonsp = {} THEN 0 ELSE MaxOf(nonsp)
        key == CanonicalMIMEHeaderKey(SubSeq(kv, 1, endKey))
        nonws == {j \in (i + 1)..Len(kv) : kv[j] # 32 /\ kv[j] # 9}
        start == IF nonws = {} THEN Len(kv) + 1 ELSE MinOf(nonws)
    IN  [colon |-> i > 0, key |-> key, skip |-> key = <<>>,
         value |-> SubSeq(kv, start, Len(kv))]

\* ReadHeader as it would be if it passed over a line with no colon.
RECURSIVE readLoopSkipMalformed(_, _, _)
readLoopSkipMalformed(m, st, lines) ==
    LET r == ReadContinuedLineBytes(st)
        kv == r.line
        f == SplitLine(kv)
    IN  IF Len(kv) = 0
        THEN [Header |-> m, err |-> r.err, rest |-> r.rest, lines |-> lines,
              ended |-> IF r.err = NilErr THEN "blank" ELSE "stream"]
        ELSE IF ~f.colon \/ f.skip
        THEN readLoopSkipMalformed(m, r.rest, Append(lines, kv))
        ELSE readLoopSkipMalformed(Add(m, f.key, f.value), r.rest, Append(lines, kv))

\* The loop of ReadHeader from Headers m and stream st: [Header, err, rest,
\* lines, ended]; lines are the logical lines the loop was given and ended says
\* how it ended: "blank" on an empty line with no error, "stream" on an error of
\* the stream, "malformed" on a line with no colon (both kept for the claims).
RECURSIVE readLoop(_, _, _)
readLoop(m, st, lines) ==
    LET r == ReadContinuedLineBytes(st)
        kv == r.line
        f == SplitLine(kv)
    IN  IF Len(kv) = 0
        THEN [Header |-> m, err |-> r.err, rest |-> r.rest, lines |-> lines,
              ended |-> IF r.err = NilErr THEN "blank" ELSE "stream"]
        ELSE IF ~f.colon
        THEN [Header |-> m,
              err |-> ProtocolError(Str("malformed MIME header line: ") \o kv),
              rest |-> r.rest, lines |-> Append(lines, kv), ended |-> "malformed"]
        ELSE IF f.skip
        THEN readLoop(m, r.rest, Append(lines, kv))
        ELSE IF r.err # NilErr
        THEN [Header |-> Add(m, f.key, f.value), err |-> r.err, rest |-> r.rest,
              lines |-> Append(lines, kv), ended |-> "stream"]
        ELSE readLoop(Add(m, f.key, f.value), r.rest, Append(lines, kv))

\* ReadHeader
ReadHeader(st) == readLoop(<<>>, st, <<>>)

\* ReadMessage as it would be if the reader had skipped the blanks that start
\* the body, as it does those of a continuation line.
ReadMessageSkipSpace(st) ==
    LET r == readLoop(<<>>, st, <<>>)
    IN  IF r.err # NilErr
        THEN [ok |-> FALSE, Header |-> <<>>, Body |-> <<>>, err |-> r.err]
        ELSE [ok |-> TRUE, Header |-> r.Header, Body |-> skipSpace(r.rest).rest.data,
              err |-> NilErr]

\* ReadMessage: [ok, Header, Body, err]; Body is what the reader has left.
ReadMessage(st) ==
    LET r == ReadHeader(st)
    IN  IF r.err # NilErr
        THEN [ok |-> FALSE, Header |-> <<>>, Body |-> <<>>, err |-> r.err]
        ELSE [ok |-> TRUE, Header |-> r.Header, Body |-> r.rest.data, err |-> NilErr]


(***************************************************************************)
(* The Writer and the Folding Engine.  Indices are Go's: they start at 0.  *)
(***************************************************************************)
\* The column the folding engine keeps lines under.
FoldColumn == 78

\* Options
Options ==
    [RenderBCC : BOOLEAN, RenderBlank : BOOLEAN, NoEscape : BOOLEAN,
     RenderReturnPath : BOOLEAN]

CRLF == <<13, 10>>

\* val[i] and val[a:b] of a Go byte slice.
At(val, i) == val[i + 1]
Slice(val, a, b) == SubSeq(val, a + 1, b)

IsCRLF(c) == c = 13 \/ c = 10

HexDigit(n) == IF n < 10 THEN 48 + n ELSE 55 + n

\* The bytes mime's Q encoding writes for one byte.
qEncodeByte(b) ==
    IF b = 32 THEN <<95>>
    ELSE IF b >= 33 /\ b <= 126 /\ b \notin {61, 63, 95} THEN <<b>>
    ELSE <<61, HexDigit(b \div 16), HexDigit(b % 16)>>

\* The bytes of the UTF-8 sequence a leading byte starts.
RuneLen(b) ==
    IF b >= 240 THEN 4 ELSE IF b >= 224 THEN 3 ELSE IF b >= 192 THEN 2 ELSE 1

RECURSIVE qEncodeRune(_)
qEncodeRune(bytes) ==
    IF bytes = <<>> THEN <<>> ELSE qEncodeByte(bytes[1]) \o qEncodeRune(Tail(bytes))

\* mime's Q encoding of s from byte i on, the current word holding n bytes of
\* content: a word that would pass 63 bytes of content is closed and a new one
\* opened after "\r\n ".
RECURSIVE qEncodeFrom(_, _, _)
qEncodeFrom(s, i, n) ==
    IF i >= Len(s) THEN <<>>
    ELSE LET w == IF i + RuneLen(At(s, i)) > Len(s) THEN 1 ELSE RuneLen(At(s, i))
             enc == qEncodeRune(Slice(s, i, i + w))
         IN  IF n + Len(enc) > 63
             THEN Str("?=") \o CRLF \o <<32>> \o Str("=?utf-8?q?") \o enc
                      \o qEncodeFrom(s, i + w, Len(enc))
             ELSE enc \o qEncodeFrom(s, i + w, n + Len(enc))

\* mime.QEncoding.Encode("utf-8", s) for an s that needs encoding.
QEncode(s) == Str("=?utf-8?q?") \o qEncodeFrom(s, 0, 0) \o Str("?=")

\* The value writeHeader folds, after the preparation its type asks for:
\* [value, err].
prepareValue(headerType, v, o) ==
    LET value == TrimSpace(v)
    IN  CASE headerType \in {"Unstructured", "PhraseList"} ->
                [value |-> IF ~isAscii(value) /\ ~o.NoEscape THEN QEncode(value) ELSE value,
                 err |-> ""]
          [] headerType \in {"Opaque", "Received", "ReturnPath", "Date", "MessageID",
                             "MessageIDList"} ->
                [value |-> value, err |-> ""]
          [] headerType = "Mailbox" ->
                IF ParseAddress(value).ok
                THEN [value |-> AddressString(ParseAddress(value)), err |-> ""]
                ELSE [value |-> value, err |-> "mail: invalid address"]
          [] headerType = "MailboxList" ->
                IF ParseAddressList(value).ok
                THEN [value |->
                        LET l == ParseAddressList(value).list
                        IN  Join([i \in 1..Len(l) |-> AddressString(l[i])], <<44, 32>>),
                      err |-> ""]
                ELSE [value |-> value, err |-> "mail: invalid address list"]
          [] OTHER -> [value |-> value, err |-> "internal error, invalid header type"]

\* The index of the first byte of val at or after i that is neither CR nor LF
\* (len(val) when there is none).
SkipCRLF(val, i) ==
    LET non == {j \in i..(Len(val) - 1) : ~IsCRLF(At(val, j))}
    IN  IF non = {} THEN Len(val) ELSE MinOf(non)

\* What follows the scan: the last token is flushed and the line ended.
flush(val, tokenStart, column, out) ==
    LET tok == Slice(val, tokenStart, Len(val))
        fold == column + Len(tok) > FoldColumn /\ tokenStart # 0 /\ column > 1
        col1 == IF tokenStart < Len(val)
                THEN (IF fold THEN 0 ELSE column) + Len(tok)
                ELSE column
        out1 == IF tokenStart < Len(val)
                THEN out \o (IF fold THEN CRLF ELSE <<>>) \o tok
                ELSE out
    IN  [out |-> IF col1 # 0 THEN out1 \o CRLF ELSE out1, err |-> ""]

\* The index of the first byte of val at or after i that the scan acts on
\* (len(val) when there is none): inside a quoted string a quote, a CR or an LF;
\* outside, those and a space, tab, vertical tab or form feed.  The scan passes
\* over every other byte with its state unchanged.
NextActedOn(val, i, inString) ==
    LET acted == {j \in i..(Len(val) - 1) :
                    \/ At(val, j) \in {34, 13, 10}
                    \/ ~inString /\ At(val, j) \in {32, 9, 11, 12}}
    IN  IF acted = {} THEN Len(val) ELSE MinOf(acted)

\* The scan of writeHeader from index i0: [out, err].
RECURSIVE scan(_, _, _, _, _, _)
scan(val, i0, inString, tokenStart, column, out) ==
    LET i == NextActedOn(val, i0, inString) IN
    IF i >= Len(val) THEN flush(val, tokenStart, column, out)
    ELSE LET v == At(val, i) IN
    IF v = 34 THEN scan(val, i + 1, ~inString, tokenStart, column, out)
    ELSE IF inString
    THEN IF IsCRLF(v)
         THEN [out |-> out, err |-> "CR or LF found in quoted string"]
         ELSE scan(val, i + 1, inString, tokenStart, column, out)
    ELSE IF IsCRLF(v)
    THEN LET tok == Slice(val, tokenStart, i)
             j == SkipCRLF(val, i)
         IN  IF Len(tok) = 0
             THEN scan(val, j + 1, inString, j, column, out)
             ELSE IF j >= Len(val)
             THEN flush(val, j, column + Len(tok), out \o tok)
             ELSE IF At(val, j) = 32 \/ At(val, j) = 9
             THEN scan(val, j + 1, inString, j, 0, out \o tok \o CRLF)
             ELSE scan(val, j + 1, inString, j, 1, out \o tok \o CRLF \o <<9>>)
    ELSE IF v \in {32, 9, 11, 12}
    THEN LET tok == Slice(val, tokenStart, i)
             fold == column + Len(tok) > FoldColumn /\ tokenStart # 0
         IN  scan(val, i + 1, inString, i,
                  (IF fold THEN 0 ELSE column) + Len(tok),
                  out \o (IF fold THEN CRLF ELSE <<>>) \o tok)
    ELSE scan(val, i + 1, inString, tokenStart, column, out)

\* writeHeader: [out, err], out the bytes written to w, also when it fails.
writeHeader(headerType, key, v, o) ==
    LET column == Len(key) + 2
        head == key \o <<58, 32>>
        p == prepareValue(headerType, v, o)
    IN  IF p.err # "" THEN [out |-> head, err |-> p.err]
        ELSE IF Len(p.value) + column < FoldColumn
        THEN [out |-> head \o p.value \o CRLF, err |-> ""]
        ELSE LET r == scan(p.value, 0, FALSE, 0, column, <<>>)
             IN  [out |-> head \o r.out, err |-> r.err]

\* An error of WriteTo: the failing entry's key and writeHeader's error.
NoWriteErr == [key |-> <<>>, err |-> ""]

\* WriteTo as it would be with the blank rule alone.
hiddenOnlyBlank(kv, o) == ~o.RenderBlank /\ kv.Value = <<>>

\* Whether WriteTo passes over entry kv without looking at its syntax.
hidden(kv, o) ==
    \/ ~o.RenderBlank /\ kv.Value = <<>>
    \/ kv.Key = HdrBcc /\ ~o.RenderBCC
    \/ kv.Key = HdrReturnPath /\ ~o.RenderReturnPath

\* WriteTo as it would be if it never looked a key up in seen.
suppressedNever(kv, seen) == FALSE

\* Whether WriteTo drops entry kv as a later entry of a unique key, seen being
\* the unique keys it has met so far.
suppressed(kv, seen) ==
    /\ kv.Key \in DOMAIN HeaderSyntax
    /\ HeaderSyntax[kv.Key].Unique
    /\ kv.Key \in seen

\* The loop of WriteTo from entry i (from 1): [out, err, rendered, failed],
\* rendered the indices of the entries writeHeader wrote in full, in the order
\* written, failed the index of the entry writeHeader failed on or 0 (both kept
\* for the claims).
RECURSIVE writeLoop(_, _, _, _, _, _)
writeLoop(h, o, i, seen, out, rendered) ==
    IF i > Len(h)
    THEN [out |-> out, err |-> NoWriteErr, rendered |-> rendered, failed |-> 0]
    ELSE LET kv == h[i]
             ok == kv.Key \in DOMAIN HeaderSyntax
             unique == ok /\ HeaderSyntax[kv.Key].Unique
             w == writeHeader(IF ok THEN HeaderSyntax[kv.Key].Type ELSE "Opaque",
                              kv.Key, kv.Value, o)
         IN  IF hidden(kv, o) THEN writeLoop(h, o, i + 1, seen, out, rendered)
             ELSE IF suppressed(kv, seen)
             THEN writeLoop(h, o, i + 1, seen, out, rendered)
             ELSE IF w.err # ""
             THEN [out |-> out \o w.out, err |-> [key |-> kv.Key, err |-> w.err],
                   rendered |-> rendered, failed |-> i]
             ELSE writeLoop(h, o, i + 1,
                            IF unique THEN seen \cup {kv.Key} ELSE seen,
                            out \o w.out, Append(rendered, i))

\* Header.WriteTo
WriteTo(h, o) == writeLoop(h, o, 1, {}, <<>>, <<>>)


(***************************************************************************)
(* The state: a Header under its operations (headers, last), and the input *)
(* and result of one call of the reader or of the folding engine.          *)
(***************************************************************************)
VARIABLES
    headers,    \* Header.Headers
    last,       \* the last operation on the Header: its arguments, the Headers before it, its error
    input,      \* the arguments of the call a one-call specification makes
    result      \* what that call returned

vars == <<headers, last, input, result>>

\* The entries a Header of the model holds at most.
MaxHeaders == 2

\* The keys the callers pass, in the letter case they pass them.
Keys == {Str("sUBJECT"), Str("bcc"), Str("x-a"), Str("a b")}

\* The values the callers pass.
Values == {<<>>, Str("a@b.c"), Str("x \ty")}

\* The streams ReadHeader is given in the Header's specification.
OpStreams ==
    { [data |-> Str("suBJect: x\r\n" \o "bcc : a@b.c\n" \o ": y\n" \o "\n"), err |-> "EOF"],
      [data |-> Str("a b: 1\n" \o "x-A:\n"), err |-> "EOF"],
      [data |-> Str("x-a: 1\n" \o "oops\n" \o "bcc: 2\n\n"), err |-> "IOERR"] }

NoInput == [none |-> TRUE]
NoResult == [done |-> FALSE]

Op(op, key, value, pre, err) ==
    [op |-> op, key |-> key, value |-> value, pre |-> pre, err |-> err]

Init ==
    /\ headers = <<>>
    /\ last = Op("new", <<>>, <<>>, <<>>, "")
    /\ input = NoInput
    /\ result = NoResult

AddOp(key, value) ==
    /\ Len(headers) < MaxHeaders
    /\ headers' = Add(headers, key, value)
    /\ last' = Op("Add", key, value, headers, "")
    /\ result' = NoResult
    /\ UNCHANGED input

SetOp(key, value) ==
    /\ Len(Set(headers, key, value).h) <= MaxHeaders
    /\ headers' = Set(headers, key, value).h
    /\ last' = Op("Set", key, value, headers, Set(headers, key, value).err)
    /\ UNCHANGED <<input, result>>

RemoveAllOp(key) ==
    /\ headers' = RemoveAll(headers, key)
    /\ last' = Op("RemoveAll", key, <<>>, headers, "")
    /\ UNCHANGED <<input, result>>

NormalizeOp ==
    /\ headers' = Normalize(headers)
    /\ last' = Op("Normalize", <<>>, <<>>, headers, "")
    /\ UNCHANGED <<input, result>>

\* ReadHeader makes the Header anew from a stream.
ReadHeaderOp(st) ==
    /\ Len(ReadHeader(st).Header) <= MaxHeaders
    /\ headers' = ReadHeader(st).Header
    /\ last' = Op("ReadHeader", <<>>, st.data, headers, ReadHeader(st).err.kind)
    /\ UNCHANGED <<input, result>>

Next ==
    \/ \E key \in Keys, value \in Values : AddOp(key, value)
    \/ \E key \in Keys, value \in Values : SetOp(key, value)
    \/ \E key \in Keys : RemoveAllOp(key)
    \/ NormalizeOp
    \/ \E st \in OpStreams : ReadHeaderOp(st)

Spec == Init /\ [][Next]_vars


(***************************************************************************)
(* SpecWrite: a Header built by Add is written by WriteTo under any        *)
(* Options.                                                                *)
(***************************************************************************)
WriteKeys == {Str("sUBJECT"), Str("bcc"), Str("Return-path"), Str("x-a")}

WriteValues == {<<>>, Str("a@b.c"), Str("x y"), NonAscii}

\* WriteTo leaves the Header as it is: a second call on the same Headers leads
\* to no state the first does not, and is left out.
WriteToOp(o) ==
    /\ ~result.done
    /\ result' = [done |-> TRUE, o |-> o] @@ WriteTo(headers, o)
    /\ UNCHANGED <<headers, last, input>>

NextWrite ==
    \/ \E key \in WriteKeys, value \in WriteValues : AddOp(key, value)
    \/ \E o \in Options : WriteToOp(o)

SpecWrite == Init /\ [][NextWrite]_vars

(***************************************************************************)
(* SpecRead: one call of ReadHeader and of ReadMessage on a stream.        *)
(***************************************************************************)
\* The physical lines a stream of SpecRead holds at most before its tail.
MaxLines == 2

\* Physical lines, with their line ends.
ReadLines ==
    {Str("a: 1\n"), Str("B :2\r\n"), Str(": x\n"), Str("oops\n"), Str(" z \n"),
     Str("a-b:\t 3\n"), Str("c:\r\n")}

\* How a stream goes on after those lines: it ends, a blank line and the end,
\* a blank line and a body (one of them starts with a space), a last line with
\* no line end.
ReadTails ==
    {<<>>, Str("\n"), Str("\r\n"), Str("\n\n"), Str("\nbaz\n"), Str("\n x\n"),
     Str("Foo: bar")}

RECURSIVE Concat(_)
Concat(parts) == IF parts = <<>> THEN <<>> ELSE parts[1] \o Concat(Tail(parts))

ReadStreams ==
    LET heads == UNION {[1..n -> ReadLines] : n \in 0..MaxLines}
    IN  {[data |-> Concat(h) \o t, err |-> e] :
            h \in heads, t \in ReadTails, e \in {"EOF", "IOERR"}}

InitRead ==
    /\ headers = <<>>
    /\ last = Op("new", <<>>, <<>>, <<>>, "")
    /\ input \in ReadStreams
    /\ result = NoResult

ReadMessageOp ==
    /\ ~result.done
    /\ result' = [done |-> TRUE, hdr |-> ReadHeader(input), msg |-> ReadMessage(input)]
    /\ UNCHANGED <<headers, last, input>>

NextRead == ReadMessageOp

SpecRead == InitRead /\ [][NextRead]_vars

(***************************************************************************)
(* SpecFold: one call of writeHeader on a value made of a few pieces.      *)
(***************************************************************************)
\* The pieces a value of SpecFold is made of at most.
MaxPieces == 5

Repeat(c, n) == [i \in 1..n |-> c]

\* Words of 30, 45 and 80 bytes, a space, an embedded line break, a quote, a
\* quote with a backslash before it.
FoldPieces ==
    {Repeat(Ch("a"), 30), Repeat(Ch("b"), 45), Repeat(Ch("c"), 80),
     Str(" "), Str("\r\n"), Str("\""), <<92, 34>>}

FoldValues ==
    {Concat(ps) : ps \in UNION {[1..n -> FoldPieces] : n \in 0..MaxPieces}}

\* A registered key of type Unstructured and a key that is not registered.
FoldKeys == {HdrSubject, Str("X")}

DefaultOptions ==
    [RenderBCC |-> FALSE, RenderBlank |-> FALSE, NoEscape |-> FALSE,
     RenderReturnPath |-> FALSE]

\* The type WriteTo passes writeHeader for a key.
TypeOf(key) == IF key \in DOMAIN HeaderSyntax THEN HeaderSyntax[key].Type ELSE "Opaque"

InitFold ==
    /\ headers = <<>>
    /\ last = Op("new", <<>>, <<>>, <<>>, "")
    /\ input \in {[key |-> k, value |-> v, o |-> DefaultOptions] :
                    k \in FoldKeys, v \in FoldValues}
    /\ result = NoResult

writeHeaderOp ==
    /\ ~result.done
    /\ result' = [done |-> TRUE] @@
                     writeHeader(TypeOf(input.key), input.key, input.value, input.o)
    /\ UNCHANGED <<headers, last, input>>

NextFold == writeHeaderOp

SpecFold == InitFold /\ [][NextFold]_vars

(***************************************************************************)
(* The claims about the Header's operations, under Spec.                   *)
(***************************************************************************)
\* The canonical form: hyphen-separated segments, the first letter of each
\* upper-case, the remainder lower-case.
IsCanonicalForm(k) ==
    \A i \in 1..Len(k) :
        IF i = 1 \/ k[i - 1] = 45 THEN ~IsLower(k[i]) ELSE ~IsUpper(k[i])

IsToken(k) == \A i \in 1..Len(k) : validHeaderFieldByte(k[i])

\* C2 as stated: after any sequence of ReadHeader, Add, Set, RemoveAll and
\* Normalize, whatever the key strings passed, every key stored in the Header is
\* in canonical form.
C2_EveryKeyCanonical ==
    \A i \in 1..Len(headers) : IsCanonicalForm(headers[i].Key)

\* C2 amended: every stored key made of token characters only is in canonical
\* form, and a key with a byte that is no token character (a space) is stored
\* as Add was given it.
C2_TokenKeysCanonical ==
    /\ \A i \in 1..Len(headers) :
          IsToken(headers[i].Key) => IsCanonicalForm(headers[i].Key)
    /\ (last.op = "Add" /\ ~IsToken(last.key)) =>
          headers[Len(headers)].Key = last.key

\* Add was given a key in mixed case and the Header also holds a key with a
\* space.
C2_Witness ==
    /\ last.op = "Add" /\ last.key = Str("sUBJECT")
    /\ Len(headers) = 2
    /\ headers[1].Key = Str("a b")
    /\ headers[2].Key = Str("Subject")

\* C3: a Set that succeeds replaces the value of the first entry of the
\* canonical key and leaves every other entry and the length as they were, or,
\* when no entry has the key, appends one KV and leaves the earlier entries as
\* they were; Get(key) then returns the value.
C3_SetFrame ==
    (last.op = "Set" /\ last.err = "") =>
        LET canon == CanonicalMIMEHeaderKey(last.key)
            hit == {i \in 1..Len(last.pre) : last.pre[i].Key = canon}
        IN  /\ IF hit # {}
               THEN /\ Len(headers) = Len(last.pre)
                    /\ \A i \in 1..Len(headers) :
                          IF i \in hit /\ \A j \in hit : i <= j
                          THEN headers[i] = KV(canon, last.value)
                          ELSE headers[i] = last.pre[i]
               ELSE /\ Len(headers) = Len(last.pre) + 1
                    /\ headers[Len(headers)] = KV(canon, last.value)
                    /\ \A i \in 1..Len(last.pre) : headers[i] = last.pre[i]
            /\ Get(headers, last.key) = last.value

\* Set has succeeded on a Header that held the key twice, with two values other
\* than the new one.
C3_Witness ==
    /\ last.op = "Set" /\ last.err = ""
    /\ Len(last.pre) = 2
    /\ last.pre[1].Key = CanonicalMIMEHeaderKey(last.key)
    /\ last.pre[2].Key = CanonicalMIMEHeaderKey(last.key)
    /\ last.pre[1].Value # last.value
    /\ last.pre[2].Value # last.value
    /\ last.pre[1].Value # last.pre[2].Value

\* C4: Set returns an error exactly when the canonical key is not in the
\* Registry or the value is non-empty and the Validator rejects it for the key's
\* type (a malformed address for Bcc, a MailboxList); the Header is then as it
\* was; an empty value is taken for every key of the Registry.
C4_SetErrors ==
    last.op = "Set" =>
        LET canon == CanonicalMIMEHeaderKey(last.key)
            registered == canon \in DOMAIN HeaderSyntax
            rejected == /\ registered
                        /\ last.value # <<>>
                        /\ checkHeader(HeaderSyntax[canon].Type, last.value) # ""
        IN  /\ (last.err # "") <=> (~registered \/ rejected)
            /\ last.err # "" => headers = last.pre
            /\ (registered /\ last.value = <<>>) => last.err = ""
            /\ (canon = HdrBcc /\ last.value = Str("x \ty")) => last.err # ""
            /\ (canon = HdrBcc /\ last.value = Str("a@b.c")) => last.err = ""

\* Set has refused a malformed address for Bcc on a Header that held entries.
C4_Witness ==
    /\ last.op = "Set" /\ last.err = "invalid value"
    /\ last.key = Str("bcc") /\ last.value = Str("x \ty")
    /\ Len(headers) = 2


(***************************************************************************)
(* The claims about WriteTo, under SpecWrite.                              *)
(***************************************************************************)
IsUniqueKey(k) == k \in DOMAIN HeaderSyntax /\ HeaderSyntax[k].Unique

\* The entries WriteTo wrote, as a set of indices.
Rendered == {result.rendered[n] : n \in 1..Len(result.rendered)}

\* The entries WriteTo got to: all of them, or those before the one it failed on.
Reached == IF result.failed = 0 THEN 1..Len(headers) ELSE 1..(result.failed - 1)

\* Entry i has an empty value and RenderBlank is off.
SkippedBlank(i) == headers[i].Value = <<>> /\ ~result.o.RenderBlank

\* Entry i is one the options keep out of the output.
NotShown(i) ==
    \/ SkippedBlank(i)
    \/ headers[i].Key = Str("Bcc") /\ ~result.o.RenderBCC
    \/ headers[i].Key = Str("Return-Path") /\ ~result.o.RenderReturnPath

\* C5 as stated: of the entries that share a unique key WriteTo renders only
\* the first in the Header's order; no later one is ever rendered.
C5_OnlyFirstOfUniqueKey ==
    result.done =>
        \A i \in Rendered :
            IsUniqueKey(headers[i].Key) =>
                \A j \in 1..(i - 1) : headers[j].Key # headers[i].Key

\* C5 amended: of the entries that share a unique key WriteTo renders at most
\* one, the first that the blank rule does not skip (every earlier one has an
\* empty value, with RenderBlank off), and it does render that one when it gets
\* to it and the options show it; an entry whose key is not unique or not
\* registered is never dropped for being a duplicate.
C5_FirstShownOfUniqueKey ==
    result.done =>
        /\ \A i \in Rendered :
              IsUniqueKey(headers[i].Key) =>
                  \A j \in 1..(i - 1) :
                      headers[j].Key = headers[i].Key => SkippedBlank(j)
        /\ \A i \in Reached :
              (/\ IsUniqueKey(headers[i].Key)
               /\ ~NotShown(i)
               /\ \A j \in 1..(i - 1) : headers[j].Key = headers[i].Key => SkippedBlank(j))
                  => i \in Rendered
        /\ \A i \in Reached :
              (~IsUniqueKey(headers[i].Key) /\ ~NotShown(i)) => i \in Rendered

\* WriteTo has written a Header that holds Subject twice with different values,
\* and rendered the first entry only.
C5_Witness ==
    /\ result.done /\ result.failed = 0
    /\ Len(headers) = 2
    /\ headers[1].Key = Str("Subject") /\ headers[2].Key = Str("Subject")
    /\ headers[1].Value = Str("a@b.c") /\ headers[2].Value = Str("x y")
    /\ result.rendered = <<1>>

\* The lines of an output: the bytes between CRLFs (the last CRLF ends a line).
RECURSIVE OutputLines(_)
OutputLines(out) ==
    LET ends == {i \in 1..(Len(out) - 1) : out[i] = 13 /\ out[i + 1] = 10}
    IN  IF out = <<>> THEN <<>>
        ELSE IF ends = {} THEN <<out>>
        ELSE <<SubSeq(out, 1, MinOf(ends) - 1)>>
                 \o OutputLines(SubSeq(out, MinOf(ends) + 2, Len(out)))

\* The text of a line before its first colon.
LineKey(line) ==
    LET colons == {i \in 1..Len(line) : line[i] = 58}
    IN  IF colons = {} THEN line ELSE SubSeq(line, 1, MinOf(colons) - 1)

\* C6: WriteTo renders no Bcc entry unless RenderBCC is set, no Return-Path
\* entry unless RenderReturnPath is set and no entry with an empty value unless
\* RenderBlank is set; with the option set such an entry is rendered as any
\* other is (when it is no later entry of a unique key and WriteTo gets to it);
\* the rendered entries are in the Header's order, and the output of a WriteTo
\* that succeeds has one line per rendered entry, in that order, under its key.
C6_OptionsHideEntries ==
    result.done =>
        /\ \A i \in Rendered :
              /\ headers[i].Key = Str("Bcc") => result.o.RenderBCC
              /\ headers[i].Key = Str("Return-Path") => result.o.RenderReturnPath
              /\ headers[i].Value = <<>> => result.o.RenderBlank
        /\ \A i \in Reached :
              (/\ ~NotShown(i)
               /\ \/ ~IsUniqueKey(headers[i].Key)
                  \/ \A j \in 1..(i - 1) : headers[j].Key = headers[i].Key => NotShown(j))
                  => i \in Rendered
        /\ \A n \in 1..(Len(result.rendered) - 1) :
              result.rendered[n] < result.rendered[n + 1]
        /\ result.failed = 0 =>
              LET lines == OutputLines(result.out)
              IN  /\ Len(lines) = Len(result.rendered)
                  /\ \A n \in 1..Len(lines) :
                        LineKey(lines[n]) = headers[result.rendered[n]].Key

\* WriteTo has rendered a Bcc entry and a Return-Path entry under options
\* that show them.
C6_Witness ==
    /\ result.done /\ result.failed = 0
    /\ result.o.RenderBCC /\ result.o.RenderReturnPath /\ ~result.o.RenderBlank
    /\ Len(headers) = 2
    /\ headers[1].Key = Str("Return-Path") /\ headers[2].Key = Str("Bcc")
    /\ result.rendered = <<1, 2>>


(***************************************************************************)
(* The claims about the Reader, under SpecRead.                            *)
(***************************************************************************)
HasColon(line) == \E i \in 1..Len(line) : line[i] = 58

FirstColon(line) == MinOf({i \in 1..Len(line) : line[i] = 58})

RECURSIVE DropTrailingSpaces(_)
DropTrailingSpaces(t) ==
    IF t # <<>> /\ t[Len(t)] = 32 THEN DropTrailingSpaces(SubSeq(t, 1, Len(t) - 1)) ELSE t

RECURSIVE DropLeadingBlanks(_)
DropLeadingBlanks(t) ==
    IF t # <<>> /\ t[1] \in {32, 9} THEN DropLeadingBlanks(Tail(t)) ELSE t

\* The text of a line before its first colon, trailing spaces trimmed.
KeyText(line) == DropTrailingSpaces(SubSeq(line, 1, FirstColon(line) - 1))

\* The text of a line after its first colon, leading spaces and tabs skipped.
ValueText(line) == DropLeadingBlanks(SubSeq(line, FirstColon(line) + 1, Len(line)))

\* The canonical form of a key text of token characters, letter by letter.
CanonOfToken(t) ==
    [i \in 1..Len(t) |->
        IF i = 1 \/ t[i - 1] = 45
        THEN (IF IsLower(t[i]) THEN t[i] - 32 ELSE t[i])
        ELSE (IF IsUpper(t[i]) THEN t[i] + 32 ELSE t[i])]

\* The entries a sequence of lines with colons stands for: one per line whose
\* key text is not empty, in line order.
RECURSIVE EntriesOf(_)
EntriesOf(lines) ==
    IF lines = <<>> THEN <<>>
    ELSE LET k == KeyText(lines[1])
         IN  (IF k = <<>> THEN <<>>
              ELSE <<KV(IF IsToken(k) THEN CanonOfToken(k) ELSE k, ValueText(lines[1]))>>)
                 \o EntriesOf(Tail(lines))

\* C1: given logical lines that each hold a colon, and then a blank line,
\* ReadHeader returns no error and a Header with one KV per line whose key text
\* is not empty, in line order, duplicates kept; the key is the canonical form
\* of the key text, the value the text after the colon without its leading
\* spaces and tabs; a line with an empty key text adds nothing and ends nothing.
C1_ReadHeaderEntries ==
    (/\ result.done
     /\ result.hdr.ended = "blank"
     /\ \A n \in 1..Len(result.hdr.lines) : HasColon(result.hdr.lines[n]))
        => /\ result.hdr.err = NilErr
           /\ result.hdr.Header = EntriesOf(result.hdr.lines)

\* ReadHeader has read a line with an empty key and then a line with a key, a
\* space before the colon and a value, and the blank line.
C1_Witness ==
    /\ result.done
    /\ result.hdr.ended = "blank"
    /\ result.hdr.lines = <<Str(": x"), Str("B :2")>>
    /\ result.hdr.Header = <<KV(Str("B"), Str("2"))>>

\* C9: when the stream ends after the last header line with no blank line,
\* ReadHeader and ReadMessage return no error and the Header holds every entry
\* parsed so far.
C9_StreamEndStopsNormally ==
    (/\ result.done
     /\ input.err = "EOF"
     /\ result.hdr.ended = "stream"
     /\ result.hdr.Header # <<>>
     /\ \A n \in 1..Len(result.hdr.lines) : HasColon(result.hdr.lines[n]))
        => /\ result.hdr.err = NilErr
           /\ result.msg.ok
           /\ result.msg.Header = EntriesOf(result.hdr.lines)

\* C10: on a non-empty logical line with no colon ReadHeader returns a
\* malformed-line error that carries the line, and a Header with exactly the
\* entries of the lines before it; an error of the stream is returned as it is,
\* with the entries parsed before it.
C10_ErrorsKeepEntries ==
    result.done =>
        LET r == result.hdr
            n == Len(r.lines)
        IN  /\ (\E i \in 1..n : ~HasColon(r.lines[i])) => r.ended = "malformed"
            /\ r.ended = "malformed" =>
                  /\ n > 0 /\ ~HasColon(r.lines[n]) /\ r.lines[n] # <<>>
                  /\ r.err.kind = "ProtocolError"
                  /\ r.err.text = Str("malformed MIME header line: ") \o r.lines[n]
                  /\ r.Header = EntriesOf(SubSeq(r.lines, 1, n - 1))
            /\ r.ended = "stream" =>
                  /\ r.err = StreamErr(input.err)
                  /\ r.Header = EntriesOf(r.lines)

\* ReadHeader has met a line with no colon after one entry, with a header line
\* still unread after it.
C10_Witness ==
    /\ result.done
    /\ result.hdr.ended = "malformed"
    /\ result.hdr.lines = <<Str("a: 1"), Str("oops")>>
    /\ result.hdr.Header = <<KV(Str("A"), Str("1"))>>
    /\ result.hdr.rest.data = Str("Foo: bar")


(***************************************************************************)
(* The claims about the folding engine, under SpecFold.                    *)
(***************************************************************************)
\* A line of the output without what a fold puts before its first token: the
\* "Key: " of the first line, the one folding space or tab of a later line.
LineBody(n, line) ==
    IF n = 1 THEN SubSeq(line, Len(input.key) + 3, Len(line))
    ELSE IF line # <<>> /\ line[1] \in {32, 9} THEN Tail(line)
    ELSE line

\* A line body that holds one token: no space or tab splits it.
IsOneToken(body) == \A i \in 1..Len(body) : body[i] \notin {32, 9, 11, 12}

\* C7, in its weakest reading and for the values with no quote in them: when
\* writeHeader succeeds, a line of the output longer than 78 columns holds a
\* single token.
C7_LongLineIsOneToken ==
    (/\ result.done /\ result.err = ""
     /\ \A i \in 1..Len(input.value) : input.value[i] # 34) =>
        LET lines == OutputLines(result.out)
        IN  \A n \in 1..Len(lines) :
                Len(lines[n]) > FoldColumn => IsOneToken(LineBody(n, lines[n]))

\* C8, for the values with no quote in them: when writeHeader succeeds, the
\* output ends with exactly one CRLF, holds no empty line, and every line after
\* the first begins with a folding space or tab.
C8_FoldedLinesWellFormed ==
    (/\ result.done /\ result.err = ""
     /\ \A i \in 1..Len(input.value) : input.value[i] # 34) =>
        LET out == result.out
            n == Len(out)
            ends == {i \in 1..(n - 1) : out[i] = 13 /\ out[i + 1] = 10}
        IN  /\ n >= 2 /\ (n - 1) \in ends
            /\ \A i \in ends : (i + 2) \notin ends
            /\ \A i \in ends : i + 2 <= n => out[i + 2] \in {32, 9}



(***************************************************************************)
(* SpecEdit: a Header of up to MaxEntries entries under Add, Set,          *)
(* ReadHeader, RemoveAll, Normalize and the three queries.                 *)
(***************************************************************************)
\* The entries a Header of SpecEdit holds at most.
MaxEntries == 3

EditKeys == {Str("sUBJECT"), Str("x-a")}

\* Values with runs of blanks, tabs, line breaks and a vertical tab in them.
EditValues == {Str(" x\t\r\ny "), <<97, 32, 11, 32, 98>>, Str("z")}

AddEntryOp(key, value) ==
    /\ Len(headers) < MaxEntries
    /\ headers' = Add(headers, key, value)
    /\ last' = Op("Add", key, value, headers, "")
    /\ result' = NoResult
    /\ UNCHANGED input

\* ToMap, Get and Has on the Header as it is.  They leave the Header as it is:
\* the calls after them lead to no Header the calls before them do not, and
\* are left out.
QueryOp(key) ==
    /\ ~result.done
    /\ result' = [done |-> TRUE, map |-> ToMap(headers), get |-> Get(headers, key),
                  has |-> Has(headers, key)]
    /\ last' = Op("Query", key, <<>>, headers, "")
    /\ UNCHANGED <<headers, input>>

NextEdit ==
    \/ ~result.done /\ \E key \in EditKeys, value \in EditValues : AddEntryOp(key, value)
    \/ ~result.done /\ \E key \in EditKeys, value \in EditValues : SetOp(key, value)
    \/ ~result.done /\ \E st \in OpStreams : ReadHeaderOp(st)
    \/ ~result.done /\ \E key \in EditKeys : RemoveAllOp(key)
    \/ ~result.done /\ NormalizeOp
    \/ \E key \in EditKeys : QueryOp(key)

SpecEdit == Init /\ [][NextEdit]_vars

(***************************************************************************)
(* The claims about RemoveAll, Normalize and the queries, under SpecEdit.  *)
(***************************************************************************)
\* The entries of h whose key is not k, in the order of h: entry i of h goes
\* to the place that counts the kept entries up to i.
KeptWithout(h, k) ==
    LET keep == {i \in 1..Len(h) : h[i].Key # k}
    IN  [j \in 1..Cardinality(keep) |->
            h[CHOOSE i \in keep : Cardinality({n \in keep : n <= i}) = j]]

\* C11: after RemoveAll(key) no entry has the canonical form of key, and the
\* entries left are exactly the entries that had another key, with their
\* values, in their order.
C11_RemoveAllKeepsOthers ==
    last.op = "RemoveAll" =>
        LET k == IF IsToken(last.key) THEN CanonOfToken(last.key) ELSE last.key
        IN  /\ \A i \in 1..Len(headers) : headers[i].Key # k
            /\ headers = KeptWithout(last.pre, k)

\* RemoveAll has taken the middle entry out of three, the key given in another
\* letter case than the stored one, and left the two others in their order.
C11_Witness ==
    /\ last.op = "RemoveAll"
    /\ last.key = Str("sUBJECT")
    /\ Len(last.pre) = 3
    /\ last.pre[2].Key = Str("Subject")
    /\ headers = <<last.pre[1], last.pre[3]>>
    /\ last.pre[1] # last.pre[3]

\* The whitespace class of Normalize as the specification lists it, among the
\* bytes: space, tab, vertical tab, form feed, CR, LF.
IsWhitespaceClass(c) == c \in {32, 9, 11, 12, 13, 10}

\* s with each maximal run of the whitespace class made one space and no
\* space at either end; gap says a run is pending after the text in out.
RECURSIVE Collapse(_, _, _)
Collapse(s, out, gap) ==
    IF s = <<>> THEN out
    ELSE IF IsWhitespaceClass(s[1]) THEN Collapse(Tail(s), out, out # <<>>)
    ELSE Collapse(Tail(s), out \o (IF gap THEN <<32>> ELSE <<>>) \o <<s[1]>>, FALSE)

\* C12: Normalize makes every value the value with each maximal run of
\* whitespace-class characters collapsed to one space and nothing at either
\* end, leaves the keys, the number of entries and their order alone, and a
\* second Normalize changes nothing.
C12_NormalizeCollapses ==
    last.op = "Normalize" =>
        /\ Len(headers) = Len(last.pre)
        /\ \A i \in 1..Len(headers) :
              /\ headers[i].Key = last.pre[i].Key
              /\ headers[i].Value = Collapse(last.pre[i].Value, <<>>, FALSE)
        /\ Normalize(headers) = headers

\* The values of the entries of h with key k, in the order of h.
ValuesOf(h, k) ==
    LET with == {i \in 1..Len(h) : h[i].Key = k}
    IN  [j \in 1..Cardinality(with) |->
            h[CHOOSE i \in with : Cardinality({n \in with : n <= i}) = j].Value]

\* C13: for a key in any letter case, ToMap maps each stored key to the values
\* of its entries in the Header's order and has no other key; Get returns the
\* first of the values of the canonical key, or the empty string when there is
\* none; Has says whether there is one; the Header is left as it was.
C13_QueriesReadTheHeader ==
    last.op = "Query" =>
        LET k == IF IsToken(last.key) THEN CanonOfToken(last.key) ELSE last.key
            vs == ValuesOf(headers, k)
        IN  /\ DOMAIN result.map = {headers[i].Key : i \in 1..Len(headers)}
            /\ \A key \in DOMAIN result.map : result.map[key] = ValuesOf(headers, key)
            /\ result.get = (IF vs = <<>> THEN <<>> ELSE vs[1])
            /\ result.has = (vs # <<>>)
            /\ headers = last.pre

\* The queries have been made with a key in another letter case than the
\* stored one, on a Header with two values of that key around another key.
C13_Witness ==
    /\ last.op = "Query"
    /\ last.key = Str("sUBJECT")
    /\ Len(headers) = 3
    /\ headers[1].Key = Str("Subject") /\ headers[3].Key = Str("Subject")
    /\ headers[2].Key = Str("X-A")
    /\ headers[1].Value # headers[3].Value
    /\ result.get = headers[1].Value
    /\ result.map[Str("Subject")] = <<headers[1].Value, headers[3].Value>>
    /\ result.has

(***************************************************************************)
(* The claim about the body of a message, under SpecRead.                  *)
(***************************************************************************)
\* The bytes of d after its first blank physical line: [found, body].
RECURSIVE AfterBlankLine(_)
AfterBlankLine(d) ==
    LET nl == {i \in 1..Len(d) : d[i] = 10}
    IN  IF nl = {} THEN [found |-> FALSE, body |-> <<>>]
        ELSE LET n == MinOf(nl)
             IN  IF n = 1 \/ (n = 2 /\ d[1] = 13)
                 THEN [found |-> TRUE, body |-> SubSeq(d, n + 1, Len(d))]
                 ELSE AfterBlankLine(SubSeq(d, n + 1, Len(d)))

\* C14: for an input made of a header block ReadHeader takes, a blank line and
\* any body bytes, the Body of the Message ReadMessage returns holds exactly
\* the bytes after the blank line.
C14_BodyIsTheRest ==
    (/\ result.done
     /\ AfterBlankLine(input.data).found
     /\ \A n \in 1..Len(result.hdr.lines) : HasColon(result.hdr.lines[n]))
        => /\ result.msg.ok
           /\ result.msg.Body = AfterBlankLine(input.data).body

\* ReadMessage has read two header lines and the blank line, and left a body
\* that starts with a space.
C14_Witness ==
    /\ result.done
    /\ result.msg.ok
    /\ Len(result.msg.Header) = 2
    /\ result.msg.Body = Str(" x\n")

(***************************************************************************)
(* The claims about the errors of WriteTo, under SpecWrite.                *)
(***************************************************************************)
\* The full rendering of entry i of the Header under the options of the call.
RenderingOf(i) ==
    writeHeader(TypeOf(headers[i].Key), headers[i].Key, headers[i].Value, result.o).out

\* C15: when the rendering of an entry fails WriteTo stops there, returns the
\* error with the entry's key, and the writer holds exactly the complete
\* renderings of the entries rendered before it, each ended by CRLF, and
\* nothing of the failing entry.
C15_FailureWritesNothingOfEntry ==
    (result.done /\ result.failed # 0) =>
        /\ result.err.key = headers[result.failed].Key
        /\ result.err.err # ""
        /\ \A n \in 1..Len(result.rendered) : result.rendered[n] < result.failed
        /\ result.out =
              Concat([n \in 1..Len(result.rendered) |-> RenderingOf(result.rendered[n])])

(***************************************************************************)
(* SpecCheck: one call of an entry point that looks a name up in the       *)
(* Registry, on a name and a value.                                        *)
(***************************************************************************)
\* The message identifiers a list value of SpecCheck holds at most.
MaxIds == 2

IdLocals == {Str("a"), Str("a.b"), Str("a..b"), Str("a,b")}

IdDomains == {Str("localhost"), Str("b.c"), Str("b..c"), Str("b.c.d")}

\* One identifier in angle brackets, with or without text around it.
IdValues ==
    {lead \o Str("<") \o l \o Str("@") \o d \o Str(">") \o trail :
        lead \in {<<>>, Str(" ")}, l \in IdLocals, d \in IdDomains,
        trail \in {<<>>, Str(" "), Str("x")}}

IdSegments == {Str("<a@b.c>"), Str(" <d@e.f> "), Str("<a@localhost>"), Str("x")}

\* Up to MaxIds segments with commas between them.
IdListValues ==
    {Join(segs, Str(",")) : segs \in UNION {[1..n -> IdSegments] : n \in 1..MaxIds}}

\* Names of type MessageID and MessageIDList, in the letter case of a caller.
IdNames == {Str("message-id"), Str("REFERENCES"), Str("In-Reply-To")}

\* strings.ToLower on ASCII.
ToLower(s) == [i \in 1..Len(s) |-> IF IsUpper(s[i]) THEN s[i] + 32 ELSE s[i]]

\* Every name of the Registry, as the Registry writes it and in lower case.
RegNames == DOMAIN HeaderSyntax \cup {ToLower(n) : n \in DOMAIN HeaderSyntax}

RegValues == {<<>>, Str("<a@b.c>"), Str("a@b.c"), NonAscii}

InitCheck ==
    /\ headers = <<>>
    /\ last = Op("new", <<>>, <<>>, <<>>, "")
    /\ input \in {[name |-> n, value |-> v] : n \in IdNames, v \in IdValues \cup IdListValues}
                 \cup {[name |-> n, value |-> v] : n \in RegNames, v \in RegValues}
    /\ result = NoResult

\* Set of the name with an empty value on an empty Header.
SetEmptyOp ==
    /\ ~result.done
    /\ result' = [done |-> TRUE, op |-> "Set", err |-> Set(<<>>, input.name, <<>>).err]
    /\ UNCHANGED <<headers, last, input>>

CheckOp ==
    /\ ~result.done
    /\ result' = [done |-> TRUE, op |-> "Check", err |-> Check(input.name, input.value)]
    /\ UNCHANGED <<headers, last, input>>

NextCheck == CheckOp \/ SetEmptyOp

SpecCheck == InitCheck /\ [][NextCheck]_vars

(***************************************************************************)
(* The claims about the Validator and the Registry, under SpecCheck.       *)
(***************************************************************************)
\* atext as the claim gives it: letters, digits and !#$%&'*+-/=?^_`{|}~.
ClaimAtext(c) ==
    \/ (c >= 97 /\ c <= 122) \/ (c >= 65 /\ c <= 90) \/ (c >= 48 /\ c <= 57)
    \/ c \in {33, 35, 36, 37, 38, 39, 42, 43, 45, 47, 61, 63, 94, 95, 96, 123, 124, 125, 126}

\* One or more runs of atext with single dots between them.
IsDottedRuns(s) ==
    /\ s # <<>>
    /\ \A i \in 1..Len(s) : ClaimAtext(s[i]) \/ s[i] = 46
    /\ s[1] # 46 /\ s[Len(s)] # 46
    /\ \A i \in 1..(Len(s) - 1) : ~(s[i] = 46 /\ s[i + 1] = 46)

\* The whole of s is: optional whitespace, "<", dotted runs, "@", dotted runs,
\* ">", optional whitespace.
IsMessageIdText(s) ==
    LET ink == {i \in 1..Len(s) : s[i] \notin {32, 9, 10, 12, 13}}
        a == IF ink = {} THEN 1 ELSE MinOf(ink)
        b == IF ink = {} THEN 0 ELSE MaxOf(ink)
        ats == {i \in a..b : s[i] = 64}
    IN  /\ b > a
        /\ s[a] = 60 /\ s[b] = 62
        /\ Cardinality(ats) = 1
        /\ IsDottedRuns(SubSeq(s, a + 1, MinOf(ats) - 1))
        /\ IsDottedRuns(SubSeq(s, MinOf(ats) + 1, b - 1))

\* The semantic type the Registry gives the name of the call.
TypeOfName == TypeOf(CanonicalMIMEHeaderKey(input.name))

\* C16: the Validator accepts a MessageID value exactly when the whole value
\* is an identifier in angle brackets with optional whitespace around it, the
\* local part and the domain each one or more runs of atext with single dots
\* between them; it accepts a MessageIDList value exactly when every segment
\* between commas is one.
C16_MessageIdRule ==
    (result.done /\ result.op = "Check") =>
        /\ TypeOfName = "MessageID" =>
              ((result.err = "") <=> IsMessageIdText(input.value))
        /\ TypeOfName = "MessageIDList" =>
              ((result.err = "") <=>
                  \A n \in 1..Len(Split(input.value, 44)) :
                      IsMessageIdText(Split(input.value, 44)[n]))

\* The names of the Registry that the name of the call spells, letter case
\* apart.
SpelledNames == {n \in DOMAIN HeaderSyntax : ToLower(n) = ToLower(input.name)}

\* C17: for a name of the Registry in any letter case, Set of the name with an
\* empty value succeeds, Check applies the rule of the name, and the name of
\* the Registry is the canonical form the entry points look up.
C17_RegistryNamesCanonical ==
    result.done =>
        \A n \in SpelledNames :
            /\ result.op = "Set" => result.err = ""
            /\ result.op = "Check" =>
                  result.err = checkHeader(HeaderSyntax[n].Type, input.value)
            /\ IsCanonicalForm(n) /\ CanonicalMIMEHeaderKey(input.name) = n

\* C18, under SpecWrite: WriteTo runs the Validator on each entry it renders,
\* so no entry with a value the Validator rejects for its type is written in
\* full (entries with an empty value apart).
C18_RenderedValuesAreValid ==
    result.done =>
        \A i \in Rendered :
            headers[i].Value # <<>> =>
                checkHeader(TypeOf(headers[i].Key), headers[i].Value) = ""

(***************************************************************************)
(* The claim about quoted strings in the folding scan, under SpecFold.     *)
(***************************************************************************)
\* The value the scan works on.
ScannedValue == TrimSpace(input.value)

\* The scan runs: the value does not fit the first line.
ScanRuns == Len(ScannedValue) + Len(input.key) + 2 >= FoldColumn

\* Byte i of val is a double quote with no backslash before it.
IsUnescapedQuote(val, i) == val[i] = 34 /\ ~(i > 1 /\ val[i - 1] = 92)

\* Byte i of val lies in a quoted string: the unescaped quotes before it are
\* odd in number.
InQuotedString(val, i) ==
    Cardinality({j \in 1..(i - 1) : IsUnescapedQuote(val, j)}) % 2 = 1

\* Every quote of val with a backslash before it lies in a quoted string.
EscapesAreQuoted(val) ==
    \A i \in 2..Len(val) : (val[i] = 34 /\ val[i - 1] = 92) => InQuotedString(val, i)

\* The offsets in the value at which a line break of the output stands, for a
\* value with no line break of its own: the bytes of the value before it.
FoldOffsets ==
    LET body == SubSeq(result.out, Len(input.key) + 3, Len(result.out))
        at == {j \in 1..(Len(body) - 2) : body[j] = 13 /\ body[j + 1] = 10}
    IN  {j - 1 - 2 * Cardinality({k \in at : k < j}) : j \in at}

\* C19: in the scan the quoted-string state changes at the unescaped quotes
\* only, also at a quote right after an embedded line break: writeHeader fails
\* exactly when a CR or LF lies in a quoted string, and puts no line break at
\* whitespace in a quoted string.
C19_QuotedStringsInScan ==
    (result.done /\ ScanRuns /\ EscapesAreQuoted(ScannedValue)) =>
        LET val == ScannedValue
            breaks == {i \in 1..Len(val) : val[i] \in {13, 10}}
        IN  /\ (result.err # "") <=> (\E i \in breaks : InQuotedString(val, i))
            /\ (result.err = "" /\ breaks = {}) =>
                  \A p \in FoldOffsets : ~InQuotedString(val, p + 1)

(***************************************************************************)
(* SpecTrip: one entry is added to an empty Header, written by WriteTo and *)
(* the output read back by ReadHeader.                                     *)
(***************************************************************************)
\* The tokens a value of SpecTrip holds at most.
MaxTokens == 3

TripTokens == {Repeat(Ch("a"), 30), Repeat(Ch("b"), 45), Repeat(Ch("c"), 80), Str("d")}

\* Tokens with single spaces between them, with or without a space at each
\* end.
TripValues ==
    LET joined == {Join(ts, Str(" ")) :
                      ts \in UNION {[1..n -> TripTokens] : n \in 1..MaxTokens}}
    IN  joined \cup {Str(" ") \o v \o Str(" ") : v \in joined}

\* A key of type Unstructured and a key that is not registered, as a caller
\* writes them.
TripKeys == {Str("subject"), Str("x-a")}

InitTrip ==
    /\ headers = <<>>
    /\ last = Op("new", <<>>, <<>>, <<>>, "")
    /\ input \in {[key |-> k, value |-> v, o |-> DefaultOptions] :
                    k \in TripKeys, v \in TripValues}
    /\ result = NoResult

TripAddOp ==
    /\ headers = <<>>
    /\ headers' = Add(headers, input.key, input.value)
    /\ last' = Op("Add", input.key, input.value, headers, "")
    /\ UNCHANGED <<input, result>>

TripWriteToOp ==
    /\ Len(headers) = 1
    /\ WriteToOp(input.o)

\* ReadHeader on the bytes WriteTo wrote.
ReadBackOp ==
    /\ result.done
    /\ "back" \notin DOMAIN result
    /\ result' = [back |-> ReadHeader([data |-> result.out, err |-> "EOF"])] @@ result
    /\ UNCHANGED <<headers, last, input>>

NextTrip == TripAddOp \/ TripWriteToOp \/ ReadBackOp

SpecTrip == InitTrip /\ [][NextTrip]_vars

\* C20: for a key that is not registered or of type Unstructured and an ASCII
\* value with no quote, CR or LF whose tokens have single spaces between them,
\* ReadHeader on what WriteTo wrote for the entry gives exactly one KV, with
\* the canonical key and the value without the spaces at its ends, whatever
\* the length of the value.
C20_FoldThenUnfold ==
    (result.done /\ "back" \in DOMAIN result) =>
        /\ result.err = NoWriteErr
        /\ result.back.Header =
              <<KV(CanonOfToken(input.key),
                   DropTrailingSpaces(DropLeadingBlanks(input.value)))>>

\* A value of three tokens has been written on three lines, one of them
\* longer than the fold column, and read back.
C20_Witness ==
    /\ result.done
    /\ "back" \in DOMAIN result
    /\ Len(OutputLines(result.out)) = 3
    /\ \E n \in 1..3 : Len(OutputLines(result.out)[n]) > FoldColumn
    /\ Len(result.back.Header) = 1
    /\ result.back.Header[1].Value = DropTrailingSpaces(DropLeadingBlanks(input.value))
====
